---- MODULE Spec2Model ----
(***************************************************************************)
(* A model of the retrieval and indexing subsystem of the ministry Q&A     *)
(* repository: src/src/vector_store.py (class VectorStore).                *)
(*                                                                         *)
(* The Vector Index (a ChromaDB collection) is an external collaborator.   *)
(* It is modelled by what the code relies on: a map from ids to stored     *)
(* records, an add() that may raise, and a query() that returns up to k    *)
(* stored records that satisfy the `where` filter, in an order and with    *)
(* distances the code does not control.                                    *)
(*                                                                         *)
(* Texts are sequences of characters so that str.strip() is computed, and  *)
(* a metadata dict is a function from its keys to its values.              *)
(***************************************************************************)
EXTENDS Integers, Sequences, FiniteSets, TLC

(***************************************************************************)
(* Bounds of the model.                                                    *)
(***************************************************************************)
\* longest documents list handed to one add_documents call
MaxDocs == 3
\* add_documents calls in one behaviour
MaxAddCalls == 1
\* largest n_results of a search call
MaxN == 2
\* largest distance the index reports (cosine distance lies in [0, 2])
MaxDist == 2
\* search calls in one behaviour
MaxSearches == 1
\* the wall clock (whole seconds, int(time.time())) runs from 0 to MaxTime
MaxTime == 1
\* add_documents calls in one behaviour of the registry specification
MaxRegAdds == 2
\* longest documents list of such a call
MaxRegDocs == 1
\* add_documents calls in one behaviour of the re-run specification
MaxReruns == 2

\* runs of the database script, each in a process of its own
MaxBuilds == 2

\* runs of the website monitor
MaxMonitorRuns == 3

\* max_pages (625 in the source), scaled down
max_pages == 3

\* batch_size (100 in the source), scaled down so that a documents list of
\* MaxDocs records spans more than one batch
batch_size == 2

\* Config.MAX_RETRIES and Config.RATE_LIMIT_DELAY (seconds)
MAX_RETRIES == 3
RATE_LIMIT_DELAY == 1

UnknownMinistry == "Unknown Ministry"

(***************************************************************************)
(* Values.                                                                 *)
(***************************************************************************)
Ministries == {"Finance", "Defence"}
\* a falsy ministry argument: None (the default of add_documents) or ""
NoMinistry == ""

\* metadata values: None, a complex (non-primitive) value, or a string
NoneValue == "<None>"
ComplexValue == "<list>"
\* str(value) of the complex value
Str(value) == IF value = ComplexValue THEN "['x']" ELSE value

Space == " "
\* the empty dict {}
EmptyDict == [k \in {} |-> NoneValue]

Min(a, b) == IF a < b THEN a ELSE b

(***************************************************************************)
(* str.strip(): the text without its leading and trailing whitespace.      *)
(***************************************************************************)
RECURSIVE LStrip(_)
LStrip(s) ==
    IF s = <<>> THEN <<>>
    ELSE IF Head(s) = Space THEN LStrip(Tail(s)) ELSE s

RECURSIVE RStrip(_)
RStrip(s) ==
    IF s = <<>> THEN <<>>
    ELSE IF s[Len(s)] = Space THEN RStrip(SubSeq(s, 1, Len(s) - 1)) ELSE s

Strip(s) == RStrip(LStrip(s))

(***************************************************************************)
(* An input record of add_documents.  isdict: isinstance(doc, dict);       *)
(* keys: the keys the dict has among text, metadata, id; textIsStr: whether*)
(* doc["text"] is a str; metaIsDict: whether doc["metadata"] is a dict.    *)
(***************************************************************************)
Doc(keys, text, metadata, id) ==
    [isdict |-> TRUE, keys |-> keys, text |-> text, textIsStr |-> TRUE,
     metadata |-> metadata, metaIsDict |-> TRUE, id |-> id]

\* a record that is not a dict (a string, None, ...)
NotADict ==
    [isdict |-> FALSE, keys |-> {}, text |-> <<>>, textIsStr |-> FALSE,
     metadata |-> EmptyDict, metaIsDict |-> FALSE, id |-> ""]

\* a dict whose text is not a string (None, a number)
TextNotStr ==
    [isdict |-> TRUE, keys |-> {"text"}, text |-> <<>>, textIsStr |-> FALSE,
     metadata |-> EmptyDict, metaIsDict |-> TRUE, id |-> ""]

\* a dict whose metadata is not a mapping (None, a string)
MetaNotDict ==
    [isdict |-> TRUE, keys |-> {"text", "metadata"}, text |-> <<"a">>,
     textIsStr |-> TRUE, metadata |-> EmptyDict, metaIsDict |-> FALSE, id |-> ""]

\* the processes that each hold a VectorStore on the same directory
Writers == {1, 2}

(***************************************************************************)
(* State.                                                                  *)
(***************************************************************************)
VARIABLES
    collection,          \* the Vector Index: stored id -> [text, metadata]
    indexed_ministries,  \* self.indexed_ministries (the in-memory registry)
    registry_file,       \* indexed_ministries.json
    now,                 \* int(time.time())
    pc,                  \* where the single caller stands
    adds,                \* add_documents calls made so far
    a_documents,         \* add_documents: the documents argument
    a_ministry,          \* add_documents: the ministry argument
    a_i,                 \* add_documents: start offset i of the next batch
    a_outcome,           \* add_documents: none | running | returned | raised
    a_added,             \* add_documents: what collection.add accepted, in order
    a_writes,            \* add_documents: the collection.add calls made, in order
    a_before,            \* add_documents: the store when the call began
    searches,            \* search_by_text calls made so far
    s_ministry,          \* search: the ministry argument
    s_n,                 \* search: the n_results argument
    s_outcome,           \* search: none | running | returned | raised
    embed_failed,        \* search: create_embedding raised
    queries,             \* search: the collection.query calls issued, in order
    f_outcome,           \* search: filtered query none | ok | raised
    f_cands,             \* search: candidates the filtered query returned
    b_outcome,           \* search: fallback query none | ok | raised
    b_cands,             \* search: candidates the fallback query returned
    result,              \* search: the returned list
    save_ret,            \* _save_indexed_ministries: the operation that saves
    save_outcome,        \* last save: none | running | ok | open_failed | write_failed
    save_prev,           \* the registry file when the last save began
    c_outcome,           \* clear: none | running | returned
    c_deleted,           \* clear: collection.delete none | ok | raised
    l_outcome,           \* _load_indexed_ministries: running | returned
    l_file,              \* load: the file it found: missing | ok | corrupt
    l_scan,              \* load: collection.get() none | ok | raised
    writers,             \* the writer processes that share the registry file
    client,              \* SansadClient: the call in progress
    processor,           \* DocumentProcessor: processed_pdfs and the last call
    creator,             \* MinistryDatabaseCreator: build_vector_database
    fetcher,             \* ComprehensivePDFFetcher: fetch_pdfs_for_ministry
    monitor              \* monitor_website: the hash file and the last run

index_vars == <<collection, indexed_ministries, registry_file>>
add_vars == <<adds, a_documents, a_ministry, a_i, a_outcome, a_added,
              a_writes, a_before>>
search_vars == <<searches, s_ministry, s_n, s_outcome, embed_failed, queries,
                 f_outcome, f_cands, b_outcome, b_cands, result>>
reg_vars == <<save_ret, save_outcome, save_prev, c_outcome, c_deleted,
              l_outcome, l_file, l_scan>>
script_vars == <<client, processor, creator, fetcher, monitor>>
vars == <<index_vars, now, pc, add_vars, search_vars, reg_vars, writers,
         script_vars>>

(***************************************************************************)
(* The registry file.  A missing file, a file cut short by a failed write, *)
(* or a JSON object with the key ministries.                               *)
(***************************************************************************)
FileMissing == [state |-> "missing", ministries |-> {}]
FileCorrupt == [state |-> "corrupt", ministries |-> {}]
FileWith(ministries) == [state |-> "ok", ministries |-> ministries]

\* _save_indexed_ministries: open(path, "w") and json.dump; any exception is
\* logged and swallowed.  outcome: "ok", "open_failed" (the file is left as it
\* was) or "write_failed" (the file was truncated and not completed).
SaveOutcomes == {"ok", "open_failed", "write_failed"}
SavedFile(file, ministries, outcome) ==
    CASE outcome = "ok" -> FileWith(ministries)
      [] outcome = "open_failed" -> file
      [] OTHER -> FileCorrupt

(***************************************************************************)
(* _clean_metadata: None values dropped, primitives kept, other values     *)
(* turned into str(value); ministry defaulted to "Unknown Ministry".       *)
(***************************************************************************)
IsPrimitive(value) == value # ComplexValue

\* a cleaning that leaves a missing ministry missing
NoDefault(cleaned) == cleaned

DefaultMinistry(cleaned) ==
    IF "ministry" \notin DOMAIN cleaned
    THEN [k \in DOMAIN cleaned \cup {"ministry"} |->
             IF k = "ministry" THEN UnknownMinistry ELSE cleaned[k]]
    ELSE cleaned

_clean_metadata(metadata) ==
    LET kept == {k \in DOMAIN metadata : metadata[k] # NoneValue}
        cleaned == [k \in kept |->
                       IF IsPrimitive(metadata[k]) THEN metadata[k]
                       ELSE Str(metadata[k])]
    IN  DefaultMinistry(cleaned)

\* if ministry and "ministry" not in metadata: metadata["ministry"] = ministry
EnsureMinistry(metadata, ministry) ==
    IF ministry # NoMinistry /\ "ministry" \notin DOMAIN metadata
    THEN [k \in DOMAIN metadata \cup {"ministry"} |->
             IF k = "ministry" THEN ministry ELSE metadata[k]]
    ELSE metadata

\* an id made of the timestamp and the in-batch position alone
SynthIdWithoutOffset(t, i, k) == <<"doc", t, 0, k>>

\* an id that also carries the number of the call
SynthIdPerCall(t, i, k) == <<"doc", t, i, k, adds>>

\* f"doc_{int(time.time())}_{i}_{len(ids)}"
SynthId(t, i, k) == <<"doc", t, i, k>>

(***************************************************************************)
(* The inner loop of add_documents over one batch.  acc is the batch so    *)
(* far: ids, texts, metadatas, the positions (in documents) they came      *)
(* from, and whether handling a record raised.                             *)
(***************************************************************************)
EmptyBatch == [ids |-> <<>>, texts |-> <<>>, metadatas |-> <<>>,
               srcs |-> <<>>, raised |-> FALSE]

AddDoc(acc, doc, pos, i, ministry, t) ==
    IF acc.raised THEN acc
    ELSE IF ~doc.isdict \/ "text" \notin doc.keys THEN acc
    ELSE IF ~doc.textIsStr THEN [acc EXCEPT !.raised = TRUE]
    ELSE IF Strip(doc.text) = <<>> THEN acc
    ELSE IF "metadata" \in doc.keys /\ ~doc.metaIsDict
         THEN [acc EXCEPT !.raised = TRUE]
    ELSE LET given == IF "metadata" \in doc.keys THEN doc.metadata ELSE EmptyDict
             metadata == EnsureMinistry(_clean_metadata(given), ministry)
             doc_id == IF "id" \in doc.keys THEN doc.id
                       ELSE SynthId(t, i, Len(acc.ids))
         IN  [ids |-> Append(acc.ids, doc_id),
              texts |-> Append(acc.texts, Strip(doc.text)),
              metadatas |-> Append(acc.metadatas, metadata),
              srcs |-> Append(acc.srcs, pos),
              raised |-> FALSE]

RECURSIVE BuildBatch(_, _, _, _, _, _)
BuildBatch(documents, i, j, last, ministry, t) ==
    IF j > last THEN EmptyBatch
    ELSE AddDoc(BuildBatch(documents, i, j, last - 1, ministry, t),
                documents[last], last, i, ministry, t)

\* a slice without its upper end: documents[i :]
BatchToEnd(documents, i, ministry, t) ==
    BuildBatch(documents, i, i + 1, Len(documents), ministry, t)

\* batch = documents[i : i + batch_size], as positions i+1 .. of documents
Batch(documents, i, ministry, t) ==
    BuildBatch(documents, i, i + 1, Min(i + batch_size, Len(documents)),
               ministry, t)

(***************************************************************************)
(* collection.add(ids, documents, metadatas) of the index.  It rejects a   *)
(* call whose ids repeat; a record whose id is already stored is left as   *)
(* it is stored.                                                           *)
(***************************************************************************)
HasDuplicates(ids) == \E p, q \in 1..Len(ids) : p < q /\ ids[p] = ids[q]

PosOf(ids, id) == CHOOSE p \in 1..Len(ids) : ids[p] = id

\* an add that replaces what the index holds by the batch
CollectionReplace(coll, batch) ==
    [id \in {batch.ids[p] : p \in 1..Len(batch.ids)} |->
        [text |-> batch.texts[PosOf(batch.ids, id)],
         metadata |-> batch.metadatas[PosOf(batch.ids, id)]]]

CollectionAdd(coll, batch) ==
    LET new == {batch.ids[p] : p \in 1..Len(batch.ids)}
    IN  [id \in DOMAIN coll \cup new |->
            IF id \in DOMAIN coll THEN coll[id]
            ELSE [text |-> batch.texts[PosOf(batch.ids, id)],
                  metadata |-> batch.metadatas[PosOf(batch.ids, id)]]]

(***************************************************************************)
(* add_documents(documents, ministry), one step per batch.                 *)
(***************************************************************************)
\* the call: `if not documents: return`, else the loop starts at i = 0
add_documents(documents, ministry) ==
    /\ pc = "idle"
    /\ adds' = adds + 1
    /\ a_documents' = documents
    /\ a_ministry' = ministry
    /\ a_i' = 0
    /\ a_added' = <<>>
    /\ a_writes' = <<>>
    /\ a_before' = [indexed_ministries |-> indexed_ministries,
                    registry_file |-> registry_file,
                    ids |-> DOMAIN collection,
                    collection |-> collection,
                    documents |-> a_documents,
                    writes |-> a_writes]
    /\ IF documents = <<>>
       THEN a_outcome' = "returned" /\ pc' = "idle"
       ELSE a_outcome' = "running" /\ pc' = "add_batch"
    /\ UNCHANGED <<writers, script_vars, index_vars, now, search_vars, reg_vars>>

\* what the accepted batch adds to a_added
Accepted(batch) == [p \in 1..Len(batch.ids) |->
                       [id |-> batch.ids[p], src |-> batch.srcs[p]]]

\* what one collection.add call adds to a_writes
Written(batch, add_ok) ==
    [ids |-> batch.ids, srcs |-> batch.srcs, ok |-> add_ok,
     i |-> a_i, t |-> now]

\* a failed collection.add that is logged and skipped: the loop goes on
AddFailedSkipsBatch(next_i, next_pc) ==
    /\ a_i' = next_i
    /\ pc' = next_pc
    /\ UNCHANGED <<collection, a_outcome, a_added>>

\* collection.add raised: `except Exception: ... raise` ends the call, the
\* loop's next offset and the mark are never reached
AddFailed(next_i, next_pc) ==
    /\ a_outcome' = "raised"
    /\ pc' = "idle"
    /\ UNCHANGED <<collection, a_i, a_added>>

\* one iteration of `for i in range(0, len(documents), batch_size)`: a record
\* that raises, or a collection.add that raises, ends the call (the except
\* clause logs and re-raises); a batch without a valid record writes nothing
AddBatch ==
    /\ pc = "add_batch"
    /\ LET batch == Batch(a_documents, a_i, a_ministry, now)
           next_i == a_i + batch_size
           next_pc == IF next_i < Len(a_documents) THEN "add_batch"
                      ELSE "add_mark"
       IN  IF batch.raised
           THEN /\ a_outcome' = "raised"
                /\ pc' = "idle"
                /\ UNCHANGED <<collection, a_i, a_added, a_writes>>
           ELSE IF batch.texts = <<>>
           THEN /\ a_i' = next_i
                /\ pc' = next_pc
                /\ UNCHANGED <<collection, a_outcome, a_added, a_writes>>
           ELSE \E add_ok \in {ok \in BOOLEAN : ok => ~HasDuplicates(batch.ids)} :
                  /\ a_writes' = Append(a_writes, Written(batch, add_ok))
                  /\ IF add_ok
                     THEN /\ collection' = CollectionAdd(collection, batch)
                          /\ a_added' = a_added \o Accepted(batch)
                          /\ a_i' = next_i
                          /\ pc' = next_pc
                          /\ UNCHANGED a_outcome
                     ELSE AddFailed(next_i, next_pc)
    /\ UNCHANGED <<writers, script_vars, indexed_ministries, registry_file, now, adds, a_documents,
                   a_ministry, a_before, search_vars, reg_vars>>

\* a mark that saves the registry without inserting the ministry
MarkNothing(ministry, outcome) ==
    /\ indexed_ministries' = indexed_ministries
    /\ registry_file' = SavedFile(registry_file, indexed_ministries, outcome)

\* add_ministry_to_indexed: union insert, then _save_indexed_ministries
add_ministry_to_indexed(ministry, outcome) ==
    /\ indexed_ministries' = indexed_ministries \cup {ministry}
    /\ registry_file' = SavedFile(registry_file,
                                  indexed_ministries \cup {ministry}, outcome)

\* after the loop: `if ministry: self.add_ministry_to_indexed(ministry)`
AddMark ==
    /\ pc = "add_mark"
    /\ IF a_ministry # NoMinistry
       THEN \E outcome \in SaveOutcomes :
               /\ add_ministry_to_indexed(a_ministry, outcome)
               /\ save_outcome' = outcome
               /\ save_prev' = registry_file
       ELSE UNCHANGED <<indexed_ministries, registry_file, save_outcome,
                        save_prev>>
    /\ a_outcome' = "returned"
    /\ pc' = "idle"
    /\ UNCHANGED <<writers, script_vars, collection, now, adds, a_documents, a_ministry, a_i,
                   a_added, a_writes, a_before, search_vars, save_ret,
                   c_outcome, c_deleted, l_outcome, l_file, l_scan>>

\* the wall clock moves on between two steps
Tick ==
    /\ now < MaxTime
    /\ now' = now + 1
    /\ UNCHANGED <<writers, script_vars, index_vars, pc, add_vars, search_vars, reg_vars>>

(***************************************************************************)
(* collection.query(query_embeddings, n_results, where) of the index.      *)
(***************************************************************************)
NoFilter == [filtered |-> FALSE, ministry |-> NoMinistry]
\* {"ministry": {"$eq": ministry}}
MinistryEq(ministry) == [filtered |-> TRUE, ministry |-> ministry]

\* a first query that never filters
WhereNone(ministry) == NoFilter

\* where_clause = {"ministry": {"$eq": ministry}} if ministry else None
where_clause(ministry) ==
    IF ministry # NoMinistry THEN MinistryEq(ministry) ELSE NoFilter

\* a query that asks for n_results only
RequestedSame(n_results) == n_results

\* n_results=n_results * 2
RequestedResults(n_results) == n_results * 2

\* the stored ids a filter lets through
Matching(coll, where) ==
    {id \in DOMAIN coll :
        where.filtered => coll[id].metadata["ministry"] = where.ministry}

\* the sequences of at most n distinct elements of S
RECURSIVE InjectiveSeqs(_, _)
InjectiveSeqs(S, n) ==
    IF n = 0 \/ S = {} THEN {<<>>}
    ELSE {<<>>} \cup UNION {{<<x>> \o rest : rest \in InjectiveSeqs(S \ {x}, n - 1)}
                             : x \in S}

Distances == 0..MaxDist

\* what a query may return: at most k stored records that pass the filter,
\* each once, in the order and with the distances the index reports
QueryResults(coll, where, k) ==
    UNION {{[p \in 1..Len(ids) |->
               [id |-> ids[p], text |-> coll[ids[p]].text,
                metadata |-> coll[ids[p]].metadata, distance |-> d[p]]]
             : d \in [1..Len(ids) -> Distances]}
           : ids \in InjectiveSeqs(Matching(coll, where), k)}

(***************************************************************************)
(* _process_search_results(results, n_results).                            *)
(***************************************************************************)
\* a scan that never skips a text it has seen
NeverDuplicate(doc_text, seen_texts) == FALSE

\* if doc_text in seen_texts: continue
IsDuplicate(doc_text, seen_texts) == doc_text \in seen_texts

\* similarity = 1.0 - distance
Similarity(distance) == 1 - distance

\* a scan that never breaks off
NeverEnough(documents, n_results) == FALSE

\* if len(documents) >= n_results: break
Enough(documents, n_results) == Len(documents) >= n_results

Document(cand) ==
    [id |-> cand.id, text |-> cand.text, metadata |-> cand.metadata,
     distance |-> cand.distance, relevance_score |-> Similarity(cand.distance)]

\* the loop `for i in range(len(results["ids"][0]))` from position i on
RECURSIVE ScanResults(_, _, _, _, _)
ScanResults(results, i, seen_texts, documents, n_results) ==
    IF i > Len(results) THEN documents
    ELSE IF IsDuplicate(results[i].text, seen_texts)
    THEN ScanResults(results, i + 1, seen_texts, documents, n_results)
    ELSE LET appended == Append(documents, Document(results[i]))
         IN  IF Enough(appended, n_results) THEN appended
             ELSE ScanResults(results, i + 1,
                              seen_texts \cup {results[i].text},
                              appended, n_results)

\* list.sort(key=relevance_score, reverse=True): stable, so a document goes
\* behind every document whose score is at least its own
RECURSIVE InsertByRelevance(_, _)
InsertByRelevance(sorted, document) ==
    IF sorted = <<>> THEN <<document>>
    ELSE IF Head(sorted).relevance_score >= document.relevance_score
    THEN <<Head(sorted)>> \o InsertByRelevance(Tail(sorted), document)
    ELSE <<document>> \o sorted

RECURSIVE SortInto(_, _)
SortInto(sorted, documents) ==
    IF documents = <<>> THEN sorted
    ELSE SortInto(InsertByRelevance(sorted, Head(documents)), Tail(documents))

\* the documents left in the order the scan produced them
Unsorted(documents) == documents

SortByRelevance(documents) == SortInto(<<>>, documents)

_process_search_results(results, n_results) ==
    IF results = <<>> THEN <<>>
    ELSE SortByRelevance(ScanResults(results, 1, {}, <<>>, n_results))

(***************************************************************************)
(* search_by_text(query, ministry, n_results) and search_with_embedding.   *)
(***************************************************************************)
search_by_text(ministry, n_results) ==
    /\ pc = "idle"
    /\ searches' = searches + 1
    /\ s_ministry' = ministry
    /\ s_n' = n_results
    /\ s_outcome' = "running"
    /\ embed_failed' = FALSE
    /\ queries' = <<>>
    /\ f_outcome' = "none"
    /\ f_cands' = <<>>
    /\ b_outcome' = "none"
    /\ b_cands' = <<>>
    /\ result' = <<>>
    /\ pc' = "embed"
    /\ UNCHANGED <<writers, script_vars, reg_vars, index_vars, now, add_vars>>

\* create_embedding returns the vector
CreateEmbeddingReturns ==
    /\ pc = "embed"
    /\ pc' = "filtered"
    /\ UNCHANGED <<writers, script_vars, reg_vars, index_vars, now, add_vars, search_vars>>

\* create_embedding logs and re-raises; the except clause of search_by_text
\* catches the exception, logs it and returns []
CreateEmbeddingRaises ==
    /\ pc = "embed"
    /\ embed_failed' = TRUE
    /\ result' = <<>>
    /\ s_outcome' = "returned"
    /\ pc' = "idle"
    /\ UNCHANGED <<writers, script_vars, reg_vars, index_vars, now, add_vars, searches, s_ministry, s_n,
                   queries, f_outcome, f_cands, b_outcome, b_cands>>

Issued(n_results, where) ==
    [n_results |-> RequestedResults(n_results), where |-> where]

\* the filtered query returns: with candidates the processed results are
\* returned, without any the code goes on to the fallback
FilteredQueryReturns ==
    /\ pc = "filtered"
    /\ \E results \in QueryResults(collection, where_clause(s_ministry),
                                   RequestedResults(s_n)) :
          /\ f_cands' = results
          /\ IF results # <<>>
             THEN /\ result' = _process_search_results(results, s_n)
                  /\ s_outcome' = "returned"
                  /\ pc' = "idle"
             ELSE /\ pc' = "fallback"
                  /\ UNCHANGED <<result, s_outcome>>
    /\ queries' = Append(queries, Issued(s_n, where_clause(s_ministry)))
    /\ f_outcome' = "ok"
    /\ UNCHANGED <<writers, script_vars, reg_vars, index_vars, now, add_vars, searches, s_ministry, s_n,
                   embed_failed, b_outcome, b_cands>>

\* a filtered query whose exception ends the search with []
FilteredQueryRaisesNoFallback ==
    /\ pc = "filtered"
    /\ queries' = Append(queries, Issued(s_n, where_clause(s_ministry)))
    /\ f_outcome' = "raised"
    /\ result' = <<>>
    /\ s_outcome' = "returned"
    /\ pc' = "idle"
    /\ UNCHANGED <<writers, script_vars, reg_vars, index_vars, now, add_vars, searches, s_ministry, s_n,
                   embed_failed, f_cands, b_outcome, b_cands>>

\* the filtered query raises: the inner except clause logs a warning and the
\* code goes on to the fallback
FilteredQueryRaises ==
    /\ pc = "filtered"
    /\ queries' = Append(queries, Issued(s_n, where_clause(s_ministry)))
    /\ f_outcome' = "raised"
    /\ pc' = "fallback"
    /\ UNCHANGED <<writers, script_vars, reg_vars, index_vars, now, add_vars, searches, s_ministry, s_n,
                   s_outcome, embed_failed, f_cands, b_outcome, b_cands, result>>

\* the fallback query (no where argument) returns
FallbackQueryReturns ==
    /\ pc = "fallback"
    /\ \E results \in QueryResults(collection, NoFilter, RequestedResults(s_n)) :
          /\ b_cands' = results
          /\ result' = _process_search_results(results, s_n)
    /\ queries' = Append(queries, Issued(s_n, NoFilter))
    /\ b_outcome' = "ok"
    /\ s_outcome' = "returned"
    /\ pc' = "idle"
    /\ UNCHANGED <<writers, script_vars, reg_vars, index_vars, now, add_vars, searches, s_ministry, s_n,
                   embed_failed, f_outcome, f_cands>>

\* a fallback query whose exception reaches the caller
FallbackQueryRaisesPropagates ==
    /\ pc = "fallback"
    /\ queries' = Append(queries, Issued(s_n, NoFilter))
    /\ b_outcome' = "raised"
    /\ s_outcome' = "raised"
    /\ pc' = "idle"
    /\ UNCHANGED <<writers, script_vars, reg_vars, index_vars, now, add_vars, searches, s_ministry, s_n,
                   embed_failed, f_outcome, f_cands, b_cands, result>>

\* the fallback query raises: the outer except clause logs and returns []
FallbackQueryRaises ==
    /\ pc = "fallback"
    /\ queries' = Append(queries, Issued(s_n, NoFilter))
    /\ b_outcome' = "raised"
    /\ result' = <<>>
    /\ s_outcome' = "returned"
    /\ pc' = "idle"
    /\ UNCHANGED <<writers, script_vars, reg_vars, index_vars, now, add_vars, searches, s_ministry, s_n,
                   embed_failed, f_outcome, f_cands, b_cands>>

(***************************************************************************)
(* Specifications.                                                         *)
(***************************************************************************)
\* VectorStore() on an empty data directory: no registry file, an empty
\* collection, nothing loaded
\* the scripts and the client before their first call
ClientIdle == [pc |-> "idle", op |-> "none", retry_count |-> 0,
               requests |-> 0, log |-> <<>>, result |-> "none"]
NoPath == <<"", "">>
ProcessorNew == [processed_pdfs |-> {}, yielded |-> {},
                 last |-> [pdf_path |-> NoPath, outcome |-> "none",
                           documents |-> "none", processed_before |-> {},
                           yielded_before |-> {}]]
CreatorNew == [pc |-> "idle", force_rebuild |-> FALSE, confirm |-> "none",
               k |-> 1, errors |-> 0, clears |-> 0, cleared_at |-> 0,
               steps |-> <<>>, documents |-> <<>>, registered |-> FALSE,
               called |-> 0, runs |-> 0, previous |-> "none",
               start |-> [collection |->
                             [id \in {} |->
                                [text |-> <<>>, metadata |-> EmptyDict]],
                          indexed_ministries |-> {},
                          registry_file |-> FileMissing]]
FetcherNew == [pc |-> "idle", page |-> 1, has_more_pages |-> TRUE,
               requested |-> <<>>, results |-> <<>>, errors |-> 0]
\* load_previous_hash without a file: None
NoHash == <<"None">>
\* a run of the monitor before it has done anything
RunNew == [fetched |-> FALSE, current_hash |-> NoHash,
           previous_hash |-> NoHash, update |-> "none", saved |-> FALSE,
           ended |-> FALSE]
MonitorNew == [pc |-> "idle", attempt |-> 0, runs |-> 0, stored |-> NoHash,
               last |-> RunNew, previous |-> RunNew]

Init ==
    /\ collection = [id \in {} |-> [text |-> <<>>, metadata |-> EmptyDict]]
    /\ indexed_ministries = {}
    /\ registry_file = FileMissing
    /\ now = 0
    /\ pc = "idle"
    /\ adds = 0
    /\ a_documents = <<>>
    /\ a_ministry = NoMinistry
    /\ a_i = 0
    /\ a_outcome = "none"
    /\ a_added = <<>>
    /\ a_writes = <<>>
    /\ a_before = [indexed_ministries |-> {}, registry_file |-> FileMissing,
                   ids |-> {},
                   collection |-> [id \in {} |->
                                     [text |-> <<>>, metadata |-> EmptyDict]],
                   documents |-> <<>>,
                   writes |-> <<>>]
    /\ searches = 0
    /\ s_ministry = NoMinistry
    /\ s_n = 1
    /\ s_outcome = "none"
    /\ embed_failed = FALSE
    /\ queries = <<>>
    /\ f_outcome = "none"
    /\ f_cands = <<>>
    /\ b_outcome = "none"
    /\ b_cands = <<>>
    /\ result = <<>>
    /\ save_ret = "none"
    /\ save_outcome = "none"
    /\ save_prev = FileMissing
    /\ c_outcome = "none"
    /\ c_deleted = "none"
    /\ l_outcome = "returned"
    /\ l_file = "missing"
    /\ l_scan = "ok"
    /\ writers = [p \in Writers |->
                     [pc |-> "start", indexed_ministries |-> {},
                      loaded |-> {}, ministry |-> NoMinistry,
                      saved |-> "none"]]
    /\ client = ClientIdle
    /\ processor = ProcessorNew
    /\ creator = CreatorNew
    /\ fetcher = FetcherNew
    /\ monitor = MonitorNew

\* the lists of at most n records drawn from docs
RECURSIVE DocLists(_, _)
DocLists(docs, n) ==
    IF n = 0 THEN {<<>>}
    ELSE {<<>>} \cup {Append(l, d) : l \in DocLists(docs, n - 1), d \in docs}

\* records with a text and a metadata dict that names the ministry, without
\* an id, so that add_documents synthesizes their ids
ChunkTexts == {<<Space, "a">>, <<"b">>}
Chunks ==
    {Doc({"text", "metadata"}, text, [k \in {"ministry"} |-> m], <<"">>) :
        text \in ChunkTexts, m \in Ministries}

Next ==
    \/ /\ adds < MaxAddCalls
       /\ \E documents \in DocLists(Chunks, MaxDocs), ministry \in Ministries :
             add_documents(documents, ministry)
    \/ AddBatch
    \/ AddMark
    \/ /\ searches < MaxSearches
       /\ \E ministry \in Ministries \cup {NoMinistry}, n_results \in 1..MaxN :
             search_by_text(ministry, n_results)
    \/ CreateEmbeddingReturns
    \/ CreateEmbeddingRaises
    \/ FilteredQueryReturns
    \/ FilteredQueryRaises
    \/ FallbackQueryReturns
    \/ FallbackQueryRaises

Spec == Init /\ [][Next]_vars

(***************************************************************************)
(* The indexing specification: add_documents on records of every shape.    *)
(***************************************************************************)
IndexTexts == {<<Space>>, <<Space, "a">>}
IndexMetadatas ==
    {EmptyDict,
     [k \in {"ministry"} |-> "Defence"],
     [k \in {"ministry"} |-> NoneValue],
     [k \in {"filename"} |-> ComplexValue]}
IndexIds == {<<"id1">>}
IndexKeys == {{"text"}, {"text", "metadata"}, {"text", "id"},
              {"text", "metadata", "id"}, {"metadata", "id"}}

\* a dict with the given keys; a key it lacks has no value
DictDoc(keys, text, metadata, id) ==
    Doc(keys,
        IF "text" \in keys THEN text ELSE <<>>,
        IF "metadata" \in keys THEN metadata ELSE EmptyDict,
        IF "id" \in keys THEN id ELSE <<"">>)

IndexDocs ==
    {NotADict, TextNotStr, MetaNotDict}
    \cup {DictDoc(keys, text, metadata, id) :
             keys \in IndexKeys, text \in IndexTexts,
             metadata \in IndexMetadatas, id \in IndexIds}

NextIndex ==
    \/ /\ adds < MaxAddCalls
       /\ \E documents \in DocLists(IndexDocs, MaxDocs),
             ministry \in Ministries \cup {NoMinistry} :
             add_documents(documents, ministry)
    \/ AddBatch
    \/ AddMark
    \/ Tick

SpecIndex == Init /\ [][NextIndex]_vars

(***************************************************************************)
(* The registry across saves, clears, process stops and restarts.  Here    *)
(* _save_indexed_ministries is taken one file operation at a time: the     *)
(* open(path, "w"), which truncates the file, then the json.dump and the   *)
(* close.  A process can stop between any two steps.                       *)
(***************************************************************************)
EmptyCollection == [id \in {} |-> [text |-> <<>>, metadata |-> EmptyDict]]

\* _save_indexed_ministries is entered on behalf of ret: add | clear | load
SaveBegin(ret) ==
    /\ save_ret' = ret
    /\ save_outcome' = "running"
    /\ save_prev' = registry_file
    /\ pc' = "save_open"

\* _save_indexed_ministries returns (it never raises) and so does its caller
SaveReturns ==
    /\ pc' = CASE save_ret = "add" -> "idle"
               [] save_ret = "clear" -> "cleared"
               [] OTHER -> "loaded"
    /\ a_outcome' = IF save_ret = "add" THEN "returned" ELSE a_outcome
    /\ c_outcome' = IF save_ret = "clear" THEN "returned" ELSE c_outcome
    /\ l_outcome' = IF save_ret = "load" THEN "returned" ELSE l_outcome

\* after the loop: `if ministry: self.add_ministry_to_indexed(ministry)`, up
\* to the entry of _save_indexed_ministries
MarkBegin ==
    /\ pc = "add_mark"
    /\ IF a_ministry # NoMinistry
       THEN /\ indexed_ministries' = indexed_ministries \cup {a_ministry}
            /\ SaveBegin("add")
            /\ UNCHANGED a_outcome
       ELSE /\ a_outcome' = "returned"
            /\ pc' = "idle"
            /\ UNCHANGED <<indexed_ministries, save_ret, save_outcome,
                           save_prev>>
    /\ UNCHANGED <<writers, script_vars, collection, registry_file, now, adds, a_documents,
                   a_ministry, a_i, a_added, a_writes, a_before, search_vars,
                   c_outcome, c_deleted, l_outcome, l_file, l_scan>>

\* `with open(metadata_path, "w") as f`: the file is truncated, or the open
\* raises and the except clause logs it
SaveOpen ==
    /\ pc = "save_open"
    /\ \E opened \in BOOLEAN :
          IF opened
          THEN /\ registry_file' = FileCorrupt
               /\ pc' = "save_dump"
               /\ UNCHANGED <<save_outcome, a_outcome, c_outcome, l_outcome>>
          ELSE /\ save_outcome' = "open_failed"
               /\ SaveReturns
               /\ UNCHANGED registry_file
    /\ UNCHANGED <<writers, script_vars, collection, indexed_ministries, now, adds, a_documents,
                   a_ministry, a_i, a_added, a_writes, a_before, search_vars,
                   save_ret, save_prev, c_deleted, l_file, l_scan>>

\* json.dump and the close of the file: the record is complete, or the write
\* raises and the except clause logs it
SaveDump ==
    /\ pc = "save_dump"
    /\ \E written \in BOOLEAN :
          IF written
          THEN /\ registry_file' = FileWith(indexed_ministries)
               /\ save_outcome' = "ok"
          ELSE /\ save_outcome' = "write_failed"
               /\ UNCHANGED registry_file
    /\ SaveReturns
    /\ UNCHANGED <<writers, script_vars, collection, indexed_ministries, now, adds, a_documents,
                   a_ministry, a_i, a_added, a_writes, a_before, search_vars,
                   save_ret, save_prev, c_deleted, l_file, l_scan>>

\* clear(): collection.delete(where={}), indexed_ministries.clear(), then the
\* save; an exception of the delete is logged and the method returns
clear ==
    /\ pc = "idle"
    /\ \E deleted \in BOOLEAN :
          IF deleted
          THEN /\ collection' = EmptyCollection
               /\ indexed_ministries' = {}
               /\ c_deleted' = "ok"
               /\ c_outcome' = "running"
               /\ SaveBegin("clear")
          ELSE /\ c_deleted' = "raised"
               /\ c_outcome' = "returned"
               /\ pc' = "cleared"
               /\ UNCHANGED <<collection, indexed_ministries, save_ret,
                              save_outcome, save_prev>>
    /\ UNCHANGED <<writers, script_vars, registry_file, now, add_vars, search_vars, l_outcome,
                   l_file, l_scan>>

\* the process stops; what is in the index and in the file stays
Crash ==
    /\ pc # "down"
    /\ pc' = "down"
    /\ save_outcome' = IF pc \in {"save_open", "save_dump"} THEN "crashed"
                       ELSE save_outcome
    /\ a_outcome' = IF a_outcome = "running" THEN "killed" ELSE a_outcome
    /\ c_outcome' = IF c_outcome = "running" THEN "killed" ELSE c_outcome
    /\ l_outcome' = IF l_outcome = "running" THEN "killed" ELSE l_outcome
    /\ UNCHANGED <<writers, script_vars, index_vars, now, adds, a_documents, a_ministry, a_i,
                   a_added, a_writes, a_before, search_vars, save_ret,
                   save_prev, c_deleted, l_file, l_scan>>

\* VectorStore.__init__ in a new process: self.indexed_ministries = set()
Restart ==
    /\ pc = "down"
    /\ indexed_ministries' = {}
    /\ pc' = "load"
    /\ l_outcome' = "running"
    /\ l_file' = "none"
    /\ l_scan' = "none"
    /\ UNCHANGED <<writers, script_vars, collection, registry_file, now, add_vars, search_vars,
                   save_ret, save_outcome, save_prev, c_outcome, c_deleted>>

\* a scan that finds no ministry
ScanNothing(coll) == {}

\* `for metadata in results["metadatas"]: if metadata and "ministry" in
\* metadata: self.indexed_ministries.add(metadata["ministry"])`
ScanCollection(coll) ==
    {coll[id].metadata["ministry"] :
        id \in {i \in DOMAIN coll : "ministry" \in DOMAIN coll[i].metadata}}

\* _load_indexed_ministries returns (it never raises) and so does __init__
LoadReturns ==
    /\ l_outcome' = "returned"
    /\ pc' = "loaded"
    /\ UNCHANGED <<save_ret, save_outcome, save_prev>>

\* the inner try: collection.get(); when it raises, or the index is empty,
\* the method returns; else the ministries found are added and saved
ScanAndSave ==
    \E got \in BOOLEAN :
       IF ~got
       THEN l_scan' = "raised" /\ LoadReturns /\ UNCHANGED indexed_ministries
       ELSE IF collection = EmptyCollection
       THEN l_scan' = "ok" /\ LoadReturns /\ UNCHANGED indexed_ministries
       ELSE /\ l_scan' = "ok"
            /\ indexed_ministries' =
                   indexed_ministries \cup ScanCollection(collection)
            /\ SaveBegin("load")
            /\ UNCHANGED l_outcome

\* a load that answers an unreadable file with the scan of the index
LoadUnreadableScans == l_file' = "unreadable" /\ ScanAndSave

\* the file exists and open or json.load raises: the outer except clause
\* logs it, the registry stays as __init__ made it
LoadUnreadable ==
    /\ l_file' = "unreadable"
    /\ l_scan' = "none"
    /\ LoadReturns
    /\ UNCHANGED indexed_ministries

\* the file exists and is read: `if "ministries" in data`, then return
LoadFile ==
    /\ l_file' = "ok"
    /\ l_scan' = "none"
    /\ indexed_ministries' = registry_file.ministries
    /\ LoadReturns

\* the file does not exist
LoadMissing == l_file' = "missing" /\ ScanAndSave

_load_indexed_ministries ==
    /\ pc = "load"
    /\ \E readable \in BOOLEAN :
          IF registry_file.state = "missing" THEN LoadMissing
          ELSE IF registry_file.state = "ok" /\ readable THEN LoadFile
          ELSE LoadUnreadable
    /\ UNCHANGED <<writers, script_vars, collection, registry_file, now, add_vars, search_vars,
                   c_outcome, c_deleted>>

\* the caller of __init__ or of clear goes on
Continue ==
    /\ pc \in {"loaded", "cleared"}
    /\ pc' = "idle"
    /\ UNCHANGED <<writers, script_vars, index_vars, now, add_vars, search_vars, reg_vars>>

\* one chunk of each ministry
RegChunks == {doc \in Chunks : doc.text = <<"b">>}

NextRegistry ==
    \/ /\ adds < MaxRegAdds
       /\ \E documents \in DocLists(RegChunks, MaxRegDocs),
             ministry \in Ministries \cup {NoMinistry} :
             add_documents(documents, ministry)
    \/ AddBatch
    \/ MarkBegin
    \/ SaveOpen
    \/ SaveDump
    \/ clear
    \/ Crash
    \/ Restart
    \/ _load_indexed_ministries
    \/ Continue
    \/ Tick

SpecRegistry == Init /\ [][NextRegistry]_vars

(***************************************************************************)
(* Runs of add_documents one after the other on one store, within one      *)
(* second or not, over records with and without an id of their own.        *)
(***************************************************************************)
RerunDocs ==
    {Doc({"text"}, <<"a">>, EmptyDict, <<"">>),
     Doc({"text"}, <<"b">>, EmptyDict, <<"">>),
     Doc({"text", "id"}, <<"a">>, EmptyDict, <<"id1">>)}

NextRerun ==
    \/ /\ adds < MaxReruns
       /\ \E documents \in DocLists(RerunDocs, MaxDocs),
             ministry \in Ministries :
             add_documents(documents, ministry)
    \/ AddBatch
    \/ AddMark
    \/ Tick

SpecRerun == Init /\ [][NextRerun]_vars

(***************************************************************************)
(* Two processes, each with a VectorStore of its own on the same           *)
(* directory: each loads the registry file when it is constructed, marks   *)
(* one ministry and saves.  Nothing orders the file operations of the two. *)
(***************************************************************************)
\* where a writer stands once its save has returned
AfterSave(p) == IF writers[p].ministry = NoMinistry THEN "idle" ELSE "done"

\* VectorStore.__init__ in process p: the registry is read from the file, or
\* left empty when the file cannot be read, or rebuilt from the index and
\* saved when there is no file
WriterInit(p) ==
    /\ writers[p].pc = "start"
    /\ \E readable \in BOOLEAN, got \in BOOLEAN :
          LET found ==
                 IF registry_file.state = "ok" /\ readable
                 THEN registry_file.ministries
                 ELSE IF registry_file.state = "missing" /\ got
                 THEN ScanCollection(collection)
                 ELSE {}
              saves == /\ registry_file.state = "missing"
                       /\ got
                       /\ collection # EmptyCollection
          IN  writers' = [writers EXCEPT
                             ![p].pc = IF saves THEN "save_open" ELSE "idle",
                             ![p].indexed_ministries = found,
                             ![p].loaded = found]
    /\ UNCHANGED <<index_vars, now, pc, add_vars, search_vars, reg_vars,
                   script_vars>>

\* a mark that first reads the registry file again
MarkedSetReloaded(p, ministry) ==
    registry_file.ministries \cup writers[p].indexed_ministries \cup {ministry}

\* self.indexed_ministries.add(ministry)
MarkedSet(p, ministry) == writers[p].indexed_ministries \cup {ministry}

\* add_ministry_to_indexed(ministry) in process p, up to the entry of
\* _save_indexed_ministries
WriterMark(p, ministry) ==
    /\ writers[p].pc = "idle"
    /\ writers[p].ministry = NoMinistry
    /\ writers' = [writers EXCEPT
                      ![p].pc = "save_open",
                      ![p].indexed_ministries = MarkedSet(p, ministry),
                      ![p].ministry = ministry]
    /\ UNCHANGED <<index_vars, now, pc, add_vars, search_vars, reg_vars,
                   script_vars>>

\* open(metadata_path, "w") in process p
WriterSaveOpen(p) ==
    /\ writers[p].pc = "save_open"
    /\ \E opened \in BOOLEAN :
          IF opened
          THEN /\ registry_file' = FileCorrupt
               /\ writers' = [writers EXCEPT ![p].pc = "save_dump"]
          ELSE /\ writers' = [writers EXCEPT ![p].pc = AfterSave(p),
                                             ![p].saved = "open_failed"]
               /\ UNCHANGED registry_file
    /\ UNCHANGED <<collection, indexed_ministries, now, pc, add_vars,
                   search_vars, reg_vars, script_vars>>

\* json.dump of the whole in-memory set and the close, in process p
WriterSaveDump(p) ==
    /\ writers[p].pc = "save_dump"
    /\ \E written \in BOOLEAN :
          IF written
          THEN /\ registry_file' = FileWith(writers[p].indexed_ministries)
               /\ writers' = [writers EXCEPT ![p].pc = AfterSave(p),
                                             ![p].saved = "ok"]
          ELSE /\ registry_file' = FileCorrupt
               /\ writers' = [writers EXCEPT ![p].pc = AfterSave(p),
                                             ![p].saved = "write_failed"]
    /\ UNCHANGED <<collection, indexed_ministries, now, pc, add_vars,
                   search_vars, reg_vars, script_vars>>

NextWriters ==
    \E p \in Writers :
       \/ WriterInit(p)
       \/ \E ministry \in Ministries : WriterMark(p, ministry)
       \/ WriterSaveOpen(p)
       \/ WriterSaveDump(p)

SpecWriters == Init /\ [][NextWriters]_vars

(***************************************************************************)
(* SansadClient.fetch_questions and download_pdf: the retry loop, one      *)
(* iteration (one HTTP request) per step.  log holds, for each request of  *)
(* the call, the response, the retry_count after it and the time slept.    *)
(***************************************************************************)
ClientOps == {"fetch_questions", "download_pdf"}

\* what one request of op can come to
Responses(op) ==
    IF op = "fetch_questions"
    THEN {"data", "empty", "429", "response_error", "client_error",
          "exception"}
    ELSE {"pdf", "not_pdf", "404", "429", "response_error", "client_error",
          "exception"}

\* what the method returns when a request settles the call
Result(op, response) ==
    CASE response = "data" -> "questions"
      [] response = "pdf" -> "path"
      [] op = "fetch_questions" -> "[]"
      [] OTHER -> "None"

\* a wait that does not grow
ConstantWait(retry_count) == RATE_LIMIT_DELAY

\* wait_time = delay * (2**retry_count)
BackoffWait(retry_count) == RATE_LIMIT_DELAY * (2 ^ retry_count)

\* the sleep after a failed request that is not a 429
ErrorWait(op, response, retry_count) ==
    IF op = "fetch_questions" /\ response = "response_error"
    THEN BackoffWait(retry_count)
    ELSE RATE_LIMIT_DELAY

Logged(response, retry_count, wait) ==
    [response |-> response, retry_count |-> retry_count, wait |-> wait]

\* the call: download_pdf returns at once without a url or with the file in
\* the cache; else retry_count = 0 and the loop is entered
StartCall(op) ==
    /\ client.pc \in {"idle", "returned"}
    /\ \E start \in IF op = "download_pdf"
                    THEN {"no_url", "cached", "loop"} ELSE {"loop"} :
          client' = [pc |-> IF start = "loop" THEN "attempt" ELSE "returned",
                     op |-> op,
                     retry_count |-> 0,
                     requests |-> 0,
                     log |-> <<>>,
                     result |-> CASE start = "no_url" -> "None"
                                  [] start = "cached" -> "path"
                                  [] OTHER -> "none"]

\* one iteration of `while retry_count < max_retries`: session.get and what
\* follows its response
Attempt(response) ==
    LET op == client.op
        rc == client.retry_count + 1
        sent == [client EXCEPT !.requests = client.requests + 1]
    IN  CASE response = "429" ->
               client' = [sent EXCEPT
                  !.retry_count = rc,
                  !.log = Append(client.log,
                                 Logged(response, rc, BackoffWait(rc))),
                  !.pc = IF rc < MAX_RETRIES THEN "attempt" ELSE "returned",
                  !.result = IF rc < MAX_RETRIES THEN "none" ELSE "None"]
          [] response \in {"response_error", "client_error"} ->
               IF rc = MAX_RETRIES
               THEN client' = [sent EXCEPT
                       !.retry_count = rc,
                       !.log = Append(client.log, Logged(response, rc, 0)),
                       !.pc = "returned",
                       !.result = Result(op, response)]
               ELSE client' = [sent EXCEPT
                       !.retry_count = rc,
                       !.log = Append(client.log,
                                 Logged(response, rc,
                                        ErrorWait(op, response, rc)))]
          [] OTHER ->
               client' = [sent EXCEPT
                  !.log = Append(client.log,
                                 Logged(response, client.retry_count, 0)),
                  !.pc = "returned",
                  !.result = Result(op, response)]

ClientCall ==
    /\ \E op \in ClientOps : StartCall(op)
    /\ UNCHANGED <<index_vars, now, pc, add_vars, search_vars, reg_vars,
                   writers, processor, creator, fetcher, monitor>>

ClientAttempt ==
    /\ client.pc = "attempt"
    /\ client.retry_count < MAX_RETRIES
    /\ \E response \in Responses(client.op) : Attempt(response)
    /\ UNCHANGED <<index_vars, now, pc, add_vars, search_vars, reg_vars,
                   writers, processor, creator, fetcher, monitor>>

NextClient == ClientCall \/ ClientAttempt

SpecClient == Init /\ [][NextClient]_vars

(***************************************************************************)
(* ComprehensivePDFFetcher.fetch_pdfs_for_ministry: the page loop, with    *)
(* each fetch_questions call taken request by request as above.            *)
(* requested holds the pages asked for, results what each call returned.   *)
(***************************************************************************)
\* a test that takes only the empty list for no questions
OnlyEmptyList(questions) == questions = "[]"

\* `if not questions`: an empty list, or the None of a call that ran out of
\* retries on 429 responses
NoQuestions(questions) == questions \in {"[]", "None"}

\* the call: page = 1, has_more_pages = True
fetch_pdfs_for_ministry ==
    /\ fetcher.pc \in {"idle", "done"}
    /\ client.pc \in {"idle", "returned"}
    /\ fetcher' = [pc |-> "loop", page |-> 1, has_more_pages |-> TRUE,
                   requested |-> <<>>, results |-> <<>>, errors |-> 0]
    /\ UNCHANGED <<index_vars, now, pc, add_vars, search_vars, reg_vars,
                   writers, client, processor, creator, monitor>>

\* `while has_more_pages and page <= max_pages`: fetch_questions(page=page)
FetcherRequest ==
    /\ fetcher.pc = "loop"
    /\ fetcher.has_more_pages
    /\ fetcher.page <= max_pages
    /\ StartCall("fetch_questions")
    /\ fetcher' = [fetcher EXCEPT
                      !.pc = "waiting",
                      !.requested = Append(fetcher.requested, fetcher.page)]
    /\ UNCHANGED <<index_vars, now, pc, add_vars, search_vars, reg_vars,
                   writers, processor, creator, monitor>>

\* the rest of the iteration: no questions ends the loop; else the PDFs of
\* the page are downloaded and page += 1, also in the except clause when
\* something raised
FetcherPage ==
    /\ fetcher.pc = "waiting"
    /\ client.pc = "returned"
    /\ LET seen == [fetcher EXCEPT
                       !.results = Append(fetcher.results, client.result)]
       IN  IF NoQuestions(client.result)
           THEN fetcher' = [seen EXCEPT !.has_more_pages = FALSE,
                                        !.pc = "done"]
           ELSE \E raised \in BOOLEAN :
                   fetcher' = [seen EXCEPT
                      !.page = fetcher.page + 1,
                      !.errors = fetcher.errors + (IF raised THEN 1 ELSE 0),
                      !.pc = IF fetcher.page + 1 <= max_pages
                             THEN "loop" ELSE "done"]
    /\ UNCHANGED <<index_vars, now, pc, add_vars, search_vars, reg_vars,
                   writers, client, processor, creator, monitor>>

NextFetcher ==
    \/ fetch_pdfs_for_ministry
    \/ FetcherRequest
    \/ ClientAttempt
    \/ FetcherPage

SpecFetcher == Init /\ [][NextFetcher]_vars

(***************************************************************************)
(* DocumentProcessor.process_pdf on one instance.  A path is a pair of a   *)
(* ministry directory and a file name; what the file holds at the time of  *)
(* a call is the environment's choice.  yielded is the set of paths some   *)
(* call has returned chunks for; last describes the latest call.           *)
(***************************************************************************)
PdfDirs == {"Finance", "Health"}
PdfNames == {"q1.pdf", "q2.pdf", "q3.pdf"}
PdfPaths == PdfDirs \X PdfNames

\* missing: os.path.exists is false; unreadable: the loader raises;
\* no_pages, blank: nothing to split; text: chunks come out
PdfFiles == {"missing", "unreadable", "no_pages", "blank", "text"}

\* a processed-set keyed by the whole path
whole_path(pdf_path) == pdf_path

\* os.path.basename
basename(pdf_path) == pdf_path[2]

\* which return statement the call takes
PdfOutcome(pdf_path, file) ==
    IF file = "missing" THEN "not_found"
    ELSE IF basename(pdf_path) \in processor.processed_pdfs THEN "already"
    ELSE IF file = "unreadable" THEN "exception"
    ELSE IF file = "no_pages" THEN "no_pages"
    ELSE IF file = "blank" THEN "empty_text"
    ELSE "chunks"

process_pdf(pdf_path, file) ==
    LET outcome == PdfOutcome(pdf_path, file)
    IN  /\ processor' =
             [processed_pdfs |->
                 IF outcome = "chunks"
                 THEN processor.processed_pdfs \cup {basename(pdf_path)}
                 ELSE processor.processed_pdfs,
              yielded |->
                 IF outcome = "chunks"
                 THEN processor.yielded \cup {pdf_path}
                 ELSE processor.yielded,
              last |-> [pdf_path |-> pdf_path,
                        outcome |-> outcome,
                        documents |-> IF outcome = "chunks"
                                      THEN "chunks" ELSE "[]",
                        processed_before |-> processor.processed_pdfs,
                        yielded_before |-> processor.yielded]]
        /\ UNCHANGED <<index_vars, now, pc, add_vars, search_vars, reg_vars,
                       writers, client, creator, fetcher, monitor>>

ProcessPdf ==
    \E pdf_path \in PdfPaths, file \in PdfFiles : process_pdf(pdf_path, file)

NextProcessor == ProcessPdf

SpecProcessor == Init /\ [][NextProcessor]_vars

(***************************************************************************)
(* MinistryDatabaseCreator.build_vector_database on the store above, one   *)
(* run per process: the prompt, the clear, then the loop over              *)
(* Config.MINISTRIES with one add_documents call per ministry that has     *)
(* documents.  steps holds what the loop did for each ministry so far,     *)
(* start the store when the run began, previous how the run of the process *)
(* before ended.                                                           *)
(***************************************************************************)
\* Config.MINISTRIES, in its order
MINISTRIES == <<"Finance", "Defence">>

\* what the operator may type at the prompt
Answers == {"YES", "yes", ""}

\* a comparison that ignores case
ConfirmedAnyCase(confirm) == confirm \in {"YES", "yes"}

\* `confirm != "YES"` is false
Confirmed(confirm) == confirm = "YES"

\* process_ministry_pdfs(ministry): no chunk (no directory, no PDF, every
\* PDF failed) or one chunk, whose id is the md5 of path, index and time
MinistryDocuments(ministry, run) ==
    {<<>>,
     <<Doc({"text", "metadata", "id"}, <<"b">>,
           [k \in {"ministry"} |-> ministry], <<"md5", ministry, run>>)>>}

\* a filter that lets every ministry through
NeverSkipped(force_rebuild, ministry) == FALSE

\* `not self.force_rebuild and self.vector_store.is_ministry_indexed(ministry)`
Skipped(force_rebuild, ministry) ==
    ~force_rebuild /\ ministry \in indexed_ministries

\* the loop moves to the next ministry, or ends
NextMinistry(c, step) ==
    [c EXCEPT !.steps = Append(c.steps, step),
              !.k = c.k + 1,
              !.errors = c.errors + (IF step.did = "error" THEN 1 ELSE 0),
              !.pc = IF c.k + 1 <= Len(MINISTRIES) THEN "loop" ELSE "done"]

\* the call, up to the prompt
build_vector_database(force_rebuild) ==
    /\ creator.pc = "idle"
    /\ pc = "idle"
    /\ creator.runs < MaxBuilds
    /\ creator' = [creator EXCEPT
          !.pc = IF force_rebuild /\ indexed_ministries # {}
                 THEN "prompt" ELSE "loop",
          !.force_rebuild = force_rebuild,
          !.confirm = "none",
          !.k = 1,
          !.errors = 0,
          !.clears = 0,
          !.steps = <<>>,
          !.runs = creator.runs + 1,
          !.start = [collection |-> collection,
                     indexed_ministries |-> indexed_ministries,
                     registry_file |-> registry_file]]
    /\ UNCHANGED <<index_vars, now, pc, add_vars, search_vars, reg_vars,
                   writers, client, processor, fetcher, monitor>>

\* confirm = input(...): anything but YES prints Aborted and returns
BuildConfirm ==
    /\ creator.pc = "prompt"
    /\ \E confirm \in Answers :
          creator' = [creator EXCEPT
             !.confirm = confirm,
             !.pc = IF Confirmed(confirm) THEN "clear" ELSE "done"]
    /\ c_outcome' = "none"
    /\ UNCHANGED <<index_vars, now, pc, add_vars, search_vars, save_ret,
                   save_outcome, save_prev, c_deleted, l_outcome, l_file,
                   l_scan, writers, client, processor, fetcher, monitor>>

\* self.vector_store.clear()
BuildClear ==
    /\ creator.pc = "clear"
    /\ c_outcome = "none"
    /\ clear

\* clear has returned: the loop starts
BuildCleared ==
    /\ creator.pc = "clear"
    /\ c_outcome = "returned"
    /\ pc = "idle"
    /\ creator' = [creator EXCEPT !.pc = "loop",
                                  !.clears = creator.clears + 1,
                                  !.cleared_at = Len(creator.steps)]
    /\ UNCHANGED <<index_vars, now, pc, add_vars, search_vars, reg_vars,
                   writers, client, processor, fetcher, monitor>>

\* one ministry of the loop, up to the add_documents call
BuildMinistry ==
    /\ creator.pc = "loop"
    /\ pc = "idle"
    /\ LET ministry == MINISTRIES[creator.k]
           registered == ministry \in indexed_ministries
       IN  IF Skipped(creator.force_rebuild, ministry)
           THEN creator' = NextMinistry(creator,
                              [ministry |-> ministry, did |-> "skipped",
                               registered |-> registered])
           ELSE \E documents \in MinistryDocuments(ministry, creator.runs) :
                   IF documents = <<>>
                   THEN creator' = NextMinistry(creator,
                              [ministry |-> ministry, did |-> "no_documents",
                               registered |-> registered])
                   ELSE creator' = [creator EXCEPT
                                       !.pc = "add",
                                       !.documents = documents,
                                       !.registered = registered,
                                       !.called = adds]
    /\ UNCHANGED <<index_vars, now, pc, add_vars, search_vars, reg_vars,
                   writers, client, processor, fetcher, monitor>>

\* self.vector_store.add_documents(documents, ministry=ministry)
BuildAdd ==
    /\ creator.pc = "add"
    /\ adds = creator.called
    /\ add_documents(creator.documents, MINISTRIES[creator.k])

\* add_documents returned, or raised into `except Exception`, which counts
\* the error; either way the loop goes on
BuildAdded ==
    /\ creator.pc = "add"
    /\ adds = creator.called + 1
    /\ pc = "idle"
    /\ creator' = NextMinistry(creator,
                     [ministry |-> MINISTRIES[creator.k],
                      did |-> IF a_outcome = "raised" THEN "error"
                              ELSE "added",
                      registered |-> creator.registered])
    /\ UNCHANGED <<index_vars, now, pc, add_vars, search_vars, reg_vars,
                   writers, client, processor, fetcher, monitor>>

\* the run that just ended called add_documents for every ministry, or
\* skipped it as registered, and counted no error
FullySuccessful(c) ==
    /\ c.pc = "done"
    /\ c.errors = 0
    /\ Len(c.steps) = Len(MINISTRIES)
    /\ \A j \in 1..Len(c.steps) : c.steps[j].did \in {"added", "skipped"}

\* the script ends and with it the process
BuildExit ==
    /\ creator.pc = "done"
    /\ pc = "idle"
    /\ pc' = "down"
    /\ creator' = [creator EXCEPT
                      !.pc = "idle",
                      !.previous = IF FullySuccessful(creator) THEN "success"
                                   ELSE "other"]
    /\ UNCHANGED <<index_vars, now, add_vars, search_vars, reg_vars,
                   writers, client, processor, fetcher, monitor>>

NextBuild ==
    \/ \E force_rebuild \in BOOLEAN : build_vector_database(force_rebuild)
    \/ BuildConfirm
    \/ BuildClear
    \/ BuildCleared
    \/ BuildMinistry
    \/ BuildAdd
    \/ BuildAdded
    \/ BuildExit
    \/ AddBatch
    \/ AddMark
    \/ SaveOpen
    \/ SaveDump
    \/ Restart
    \/ _load_indexed_ministries
    \/ Continue

SpecBuild == Init /\ [][NextBuild]_vars

(***************************************************************************)
(* monitoring/monitor_website.py: runs of main, one after the other.       *)
(* stored is the hash in website_hash.json (NoHash: no file); last         *)
(* describes the run in progress or just ended, previous the run before.   *)
(***************************************************************************)
\* what the site may serve
Contents == {"c1", "c2"}

\* sha256 of the content: different contents, different hashes
gen_webhash(content) == <<"sha256", content>>

\* how the two subprocess.run(..., check=True) calls end: both exit with 0;
\* one exits with another status (CalledProcessError); or one cannot be
\* started (an OSError such as FileNotFoundError for `python`)
UpdateOutcomes == {"ok", "CalledProcessError", "OSError"}

\* a save that is reached only when both scripts succeeded
SavedOnSuccess(update) == update = "ok"

\* save_current_hash follows the try statement: it is reached unless an
\* exception other than CalledProcessError left main
HashSaved(update) == update # "OSError"

\* main is called
MonitorMain ==
    /\ monitor.pc = "idle"
    /\ monitor.runs < MaxMonitorRuns
    /\ monitor' = [monitor EXCEPT
                      !.pc = "fetch",
                      !.attempt = 0,
                      !.runs = monitor.runs + 1,
                      !.previous = monitor.last,
                      !.last = [RunNew EXCEPT
                                   !.previous_hash = monitor.stored]]
    /\ UNCHANGED <<index_vars, now, pc, add_vars, search_vars, reg_vars,
                   writers, client, processor, creator, fetcher>>

\* one attempt of get_web_content: the text comes back; or the request
\* fails with a RequestException, and the last such failure is raised into
\* main, which logs and returns; or something else is raised, at once
MonitorAttempt ==
    /\ monitor.pc = "fetch"
    /\ \/ \E content \in Contents :
             monitor' = [monitor EXCEPT
                            !.pc = "compare",
                            !.attempt = monitor.attempt + 1,
                            !.last.fetched = TRUE,
                            !.last.current_hash = gen_webhash(content)]
       \/ monitor' = [monitor EXCEPT
                         !.attempt = monitor.attempt + 1,
                         !.pc = IF monitor.attempt + 1 = MAX_RETRIES
                                THEN "idle" ELSE "fetch",
                         !.last.ended = (monitor.attempt + 1 = MAX_RETRIES)]
       \/ monitor' = [monitor EXCEPT
                         !.attempt = monitor.attempt + 1,
                         !.pc = "idle",
                         !.last.ended = TRUE]
    /\ UNCHANGED <<index_vars, now, pc, add_vars, search_vars, reg_vars,
                   writers, client, processor, creator, fetcher>>

\* `if previous_hash != current_hash`: the update scripts, then the save;
\* else nothing
MonitorCompare ==
    /\ monitor.pc = "compare"
    /\ IF monitor.stored # monitor.last.current_hash
       THEN \E update \in UpdateOutcomes :
               monitor' = [monitor EXCEPT
                  !.pc = "idle",
                  !.stored = IF HashSaved(update)
                             THEN monitor.last.current_hash
                             ELSE monitor.stored,
                  !.last.update = update,
                  !.last.saved = HashSaved(update),
                  !.last.ended = TRUE]
       ELSE monitor' = [monitor EXCEPT !.pc = "idle", !.last.ended = TRUE]
    /\ UNCHANGED <<index_vars, now, pc, add_vars, search_vars, reg_vars,
                   writers, client, processor, creator, fetcher>>

NextMonitor ==
    \/ MonitorMain
    \/ MonitorAttempt
    \/ MonitorCompare

SpecMonitor == Init /\ [][NextMonitor]_vars

(***************************************************************************)
(* Properties of search.                                                   *)
(***************************************************************************)
Returned == s_outcome = "returned"

\* the candidate list handed to _process_search_results
Processed == IF f_cands # <<>> THEN f_cands ELSE b_cands

\* the position of the first candidate with the text of candidate p
FirstWithText(cands, p) ==
    CHOOSE j \in 1..p :
        /\ cands[j].text = cands[p].text
        /\ \A h \in 1..(j - 1) : cands[h].text # cands[p].text

\* the candidates that survive deduplication (first occurrence wins)
Survivors(cands) == {cands[p] : p \in {q \in 1..Len(cands) : FirstWithText(cands, q) = q}}

ResultIds == {result[p].id : p \in 1..Len(result)}

\* C1: no two results of one search have the same text, and of the
\* candidates with one text only the first in index-returned order can be in
\* the result.
C1_ResultTextsUnique ==
    Returned =>
        /\ \A p, q \in 1..Len(result) :
              p # q => result[p].text # result[q].text
        /\ \A p \in 1..Len(result) :
              \E c \in Survivors(Processed) :
                  c.id = result[p].id /\ c.text = result[p].text

\* C1 witness: the index returned two records with one text and different
\* ids, and the result holds that text.
C1_Witness ==
    /\ Returned
    /\ \E p, q \in 1..Len(Processed) :
          /\ p < q
          /\ Processed[p].text = Processed[q].text
          /\ Processed[p].id # Processed[q].id
          /\ \E r \in 1..Len(result) : result[r].id = Processed[p].id

\* C2: the result is the deduplicated candidate list sorted by descending
\* relevance_score and then truncated: no surviving candidate that was left
\* out has a strictly higher relevance_score than a returned one.
C2_SortedThenTruncated ==
    Returned =>
        \A c \in Survivors(Processed) :
            c.id \notin ResultIds =>
                \A p \in 1..Len(result) :
                    Similarity(c.distance) <= result[p].relevance_score

\* C3: when the ministry-filtered query raises, search does not raise and
\* returns the processed result of the unfiltered query.
C3_FilterFailureFallsBack ==
    f_outcome = "raised" =>
        /\ s_outcome # "raised"
        /\ Returned =>
              /\ b_outcome # "none"
              /\ queries[Len(queries)].where = NoFilter
              /\ b_outcome = "ok" =>
                    /\ result = _process_search_results(b_cands, s_n)
                    /\ b_cands # <<>> => result # <<>>

\* C3 witness: the filtered query raised and the search returned records
\* of the unfiltered query, one of them of another ministry.
C3_Witness ==
    /\ Returned
    /\ f_outcome = "raised"
    /\ s_ministry # NoMinistry
    /\ \E p \in 1..Len(result) :
          result[p].metadata["ministry"] # s_ministry

\* C4: a search issues at most two index queries; the first asks for
\* 2 * n_results candidates with an equality filter on the ministry; the
\* second is issued exactly when the first raised or returned no candidate,
\* and asks for the same 2 * n_results candidates with no filter.
C4_AtMostTwoQueries ==
    /\ Len(queries) <= 2
    /\ (Len(queries) >= 1 /\ s_ministry # NoMinistry) =>
          queries[1] = [n_results |-> 2 * s_n, where |-> MinistryEq(s_ministry)]
    /\ Len(queries) = 2 =>
          /\ queries[2] = [n_results |-> 2 * s_n, where |-> NoFilter]
          /\ f_outcome = "raised" \/ (f_outcome = "ok" /\ f_cands = <<>>)
    /\ (Returned /\ ~embed_failed) =>
          /\ Len(queries) >= 1
          /\ (f_outcome = "raised" \/ f_cands = <<>>) => Len(queries) = 2
          /\ f_cands # <<>> => Len(queries) = 1

\* C4 witness: the filtered query returned candidates, deduplication left
\* fewer than n_results results, and no second query was issued.
C4_Witness ==
    /\ Returned
    /\ s_ministry # NoMinistry
    /\ f_cands # <<>>
    /\ Len(result) < s_n
    /\ Len(queries) = 1

\* C5: when embedding the query fails, search fails hard: the error reaches
\* the caller of search instead of a normal (empty) result.
C5_EmbeddingFailurePropagates ==
    embed_failed => s_outcome # "returned"

\* C6: search never raises because of index failures: when the filtered and
\* the fallback query both raise or return no candidate, search returns the
\* empty sequence.
C6_IndexFailuresGiveEmpty ==
    /\ s_outcome # "raised"
    /\ pc = "idle" => s_outcome \in {"none", "returned"}
    /\ ( /\ Returned
         /\ f_outcome = "raised" \/ (f_outcome = "ok" /\ f_cands = <<>>)
         /\ b_outcome = "raised" \/ (b_outcome = "ok" /\ b_cands = <<>>) )
       => result = <<>>

\* C6 witness: both queries raised and the search returned.
C6_Witness ==
    /\ Returned
    /\ f_outcome = "raised"
    /\ b_outcome = "raised"
    /\ result = <<>>

\* C7: relevance_score is non-increasing along the result, and each
\* result's relevance_score is 1 minus the distance the index reported.
C7_ScoresNonIncreasing ==
    Returned =>
        /\ \A p \in 1..(Len(result) - 1) :
              result[p].relevance_score >= result[p + 1].relevance_score
        /\ \A p \in 1..Len(result) :
              /\ result[p].relevance_score = 1 - result[p].distance
              /\ \E j \in 1..Len(Processed) :
                    /\ Processed[j].id = result[p].id
                    /\ Processed[j].distance = result[p].distance

\* C7 witness: the index returned a farther record before a nearer one and
\* the result holds both, the nearer one first.
C7_Witness ==
    /\ Returned
    /\ Len(result) = 2
    /\ result[1].relevance_score > result[2].relevance_score
    /\ \E p, q \in 1..Len(Processed) :
          /\ p < q
          /\ Processed[p].id = result[2].id
          /\ Processed[q].id = result[1].id

\* C8: a search with n_results >= 1 returns at most n_results results.
C8_AtMostNResults ==
    Returned => Len(result) <= s_n

\* C8 witness: more candidates survived deduplication than n_results, and
\* the result holds exactly n_results of them.
C8_Witness ==
    /\ Returned
    /\ Cardinality(Survivors(Processed)) > s_n
    /\ Len(result) = s_n

\* C9: when the ministry-filtered query returns a candidate, every result
\* carries the ministry asked for; a result of another ministry appears
\* only on the unfiltered fallback path.
C9_FilteredResultsOfMinistry ==
    (Returned /\ s_ministry # NoMinistry) =>
        /\ f_cands # <<>> =>
              \A p \in 1..Len(result) :
                  result[p].metadata["ministry"] = s_ministry
        /\ (\E p \in 1..Len(result) :
               result[p].metadata["ministry"] # s_ministry)
           => (b_outcome = "ok" /\ Len(queries) = 2)

\* C9 witness: the index holds a record of another ministry and the
\* filtered query returned candidates, all of the ministry asked for.
C9_Witness ==
    /\ Returned
    /\ s_ministry # NoMinistry
    /\ f_cands # <<>>
    /\ result # <<>>
    /\ \E id \in DOMAIN collection :
          collection[id].metadata["ministry"] # s_ministry

(***************************************************************************)
(* Properties of add_documents.                                            *)
(***************************************************************************)
\* the input record has no ministry key in its metadata
LacksMinistryKey(doc) ==
    "metadata" \notin doc.keys \/ "ministry" \notin DOMAIN doc.metadata

\* entry p of a_added is the one its id is stored from: the id was not stored
\* before the call and no earlier write of the call carried it
StoredFrom(p) ==
    /\ a_added[p].id \notin a_before.ids
    /\ \A q \in 1..(p - 1) : a_added[q].id # a_added[p].id

\* C10: a record passed to add_documents with ministry M whose metadata has
\* no ministry key is stored with metadata.ministry = M.
C10_MinistryAttached ==
    \A p \in 1..Len(a_added) :
        ( /\ StoredFrom(p)
          /\ a_ministry # NoMinistry
          /\ LacksMinistryKey(a_documents[a_added[p].src]) )
            => collection[a_added[p].id].metadata["ministry"] = a_ministry

\* the input record supplies no ministry: no metadata, no ministry key, or
\* the value None
SuppliesNoMinistry(doc) ==
    \/ LacksMinistryKey(doc)
    \/ doc.metadata["ministry"] = NoneValue

\* C11: every record stored in the Vector Index has a non-empty, trimmed
\* text and a metadata map with the key ministry; it is the sentinel
\* "Unknown Ministry" when neither the record nor the call supplied one.
C11_StoredRecordsWellFormed ==
    /\ \A id \in DOMAIN collection :
          /\ collection[id].text # <<>>
          /\ Head(collection[id].text) # Space
          /\ collection[id].text[Len(collection[id].text)] # Space
          /\ "ministry" \in DOMAIN collection[id].metadata
    /\ \A p \in 1..Len(a_added) :
          ( /\ StoredFrom(p)
            /\ a_ministry = NoMinistry
            /\ SuppliesNoMinistry(a_documents[a_added[p].src]) )
          => collection[a_added[p].id].metadata["ministry"] = UnknownMinistry

\* C11 witness: a record whose input text had leading whitespace and that
\* supplied no ministry, in a call without a ministry, is stored.
C11_Witness ==
    \E p \in 1..Len(a_added) :
        /\ StoredFrom(p)
        /\ a_ministry = NoMinistry
        /\ SuppliesNoMinistry(a_documents[a_added[p].src])
        /\ Head(a_documents[a_added[p].src].text) = Space
        /\ a_added[p].id \in DOMAIN collection
        /\ collection[a_added[p].id].metadata["ministry"] = UnknownMinistry

\* handling the input record raises: its text is not a string (no strip),
\* or its metadata is not a mapping (no items)
RecordRaises(doc) ==
    /\ doc.isdict
    /\ "text" \in doc.keys
    /\ \/ ~doc.textIsStr
       \/ Strip(doc.text) # <<>> /\ "metadata" \in doc.keys /\ ~doc.metaIsDict

\* the input record is valid: a dict with a non-blank text
ValidRecord(doc) ==
    /\ doc.isdict
    /\ "text" \in doc.keys
    /\ doc.textIsStr
    /\ Strip(doc.text) # <<>>

AddEnded == pc = "idle" /\ a_outcome \in {"returned", "raised"}

\* C12: when handling one record raises, that record alone is skipped: the
\* call returns normally, every other valid record of the call is persisted
\* and the ministry is marked indexed.
C12_BadRecordSkipped ==
    ( /\ AddEnded
      /\ \E p \in 1..Len(a_documents) : RecordRaises(a_documents[p])
      /\ \A w \in 1..Len(a_writes) : a_writes[w].ok )
    => /\ a_outcome = "returned"
       /\ a_ministry # NoMinistry => a_ministry \in indexed_ministries
       /\ \A p \in 1..Len(a_documents) :
             (ValidRecord(a_documents[p]) /\ ~RecordRaises(a_documents[p]))
                 => \E e \in 1..Len(a_added) : a_added[e].src = p

\* the distinct ministry values a full scan of the stored metadata yields
StoredMinistries ==
    {collection[id].metadata["ministry"] : id \in DOMAIN collection}

\* C13: between operations every ministry in the registry has at least one
\* stored record whose metadata.ministry equals it.
C13_RegistryHasData ==
    pc = "idle" => indexed_ministries \subseteq StoredMinistries

ReturnedWithMinistry ==
    AddEnded /\ a_outcome = "returned" /\ a_ministry # NoMinistry

WriteRaised == \E w \in 1..Len(a_writes) : ~a_writes[w].ok

\* C19: if the collection.add of one batch raises, the call ends raised, what
\* the earlier batches wrote stays stored, that write is the last one the
\* call attempts, and neither the registry nor its file is changed by the
\* call.
C19_WriteFailurePropagates ==
    WriteRaised
        => /\ a_outcome = "raised"
           /\ pc = "idle"
           /\ \A w \in 1..Len(a_writes) : a_writes[w].ok <=> w < Len(a_writes)
           /\ \A p \in 1..Len(a_added) : a_added[p].id \in DOMAIN collection
           /\ \A w \in 1..(Len(a_writes) - 1) :
                 \A q \in 1..Len(a_writes[w].ids) :
                    a_writes[w].ids[q] \in DOMAIN collection
           /\ indexed_ministries = a_before.indexed_ministries
           /\ registry_file = a_before.registry_file

C19_Witness ==
    /\ WriteRaised
    /\ Len(a_writes) >= 2
    /\ a_ministry # NoMinistry
    /\ a_writes[1].ok
    /\ a_writes[1].ids[1] \in DOMAIN collection
    /\ a_outcome = "raised"
    /\ a_ministry \notin indexed_ministries

\* the places <<write, position>> at which input record p was submitted
Submissions(p) ==
    {s \in {<<w, q>> : w \in 1..Len(a_writes), q \in 1..MaxDocs} :
        /\ s[2] <= Len(a_writes[s[1]].srcs)
        /\ a_writes[s[1]].srcs[s[2]] = p}

SubmittedRecords == {p \in 1..Len(a_documents) : Submissions(p) # {}}

SubmittedBefore(s, t) == s[1] < t[1] \/ (s[1] = t[1] /\ s[2] < t[2])

\* what holds of the index writes of every call, finished or not
WritesWellFormed ==
    /\ \A w \in 1..Len(a_writes) :
          /\ Len(a_writes[w].srcs) \in 1..batch_size
          /\ Len(a_writes[w].ids) = Len(a_writes[w].srcs)
          /\ \A q \in 1..Len(a_writes[w].srcs) :
                (a_writes[w].srcs[q] - 1) \div batch_size
                    = (a_writes[w].srcs[1] - 1) \div batch_size
    /\ \A p \in SubmittedRecords :
          /\ ValidRecord(a_documents[p])
          /\ Cardinality(Submissions(p)) = 1
    /\ \A p, r \in SubmittedRecords :
          \A s \in Submissions(p), t \in Submissions(r) :
             SubmittedBefore(s, t) <=> p < r

\* C20 as stated: in every call, every valid record is submitted exactly
\* once.
C20_EveryValidRecordSubmitted ==
    AddEnded
        => \A p \in 1..Len(a_documents) :
              ValidRecord(a_documents[p]) => Cardinality(Submissions(p)) = 1

\* C20: in a call that returns normally every valid record is submitted
\* exactly once; in every call the submitted records are valid, each is
\* submitted once, in input order, in writes of 1..batch_size records taken
\* from one batch of the input.
C20_ValidRecordsSubmittedOnce ==
    /\ WritesWellFormed
    /\ (AddEnded /\ a_outcome = "returned")
          => \A p \in 1..Len(a_documents) :
                ValidRecord(a_documents[p]) => Cardinality(Submissions(p)) = 1

C20_Witness ==
    /\ AddEnded
    /\ a_outcome = "returned"
    /\ Len(a_writes) = 2
    /\ Len(a_documents) = MaxDocs
    /\ \E p \in 1..batch_size : ~ValidRecord(a_documents[p])
    /\ Cardinality(SubmittedRecords) = MaxDocs - 1

\* the record the save in progress is writing
NewRecord == FileWith(indexed_ministries)

\* a process stopped inside the save of a mark, and the next process has
\* loaded the registry from the file that save left
\* (a load that could not read a complete file says nothing about the save)
LoadedAfterCrashInMark ==
    /\ pc = "loaded"
    /\ save_outcome = "crashed"
    /\ save_ret = "add"
    /\ ~(registry_file.state = "ok" /\ l_file = "unreadable")

\* C15: while _save_indexed_ministries runs the registry file holds the
\* complete previous record or the complete new one; and the registry loaded
\* after a process stopped inside the save of a mark has every ministry
\* that is in both the previous and the new record.
C15_SaveAtomic ==
    /\ pc \in {"save_open", "save_dump"}
          => registry_file \in {save_prev, NewRecord}
    /\ (LoadedAfterCrashInMark /\ save_prev.state = "ok")
          => (save_prev.ministries
                 \cap (a_before.indexed_ministries \cup {a_ministry}))
                \subseteq indexed_ministries

\* the second part of C15 alone
C15_LoadAfterCrashKeeps ==
    (LoadedAfterCrashInMark /\ save_prev.state = "ok")
        => (save_prev.ministries
               \cap (a_before.indexed_ministries \cup {a_ministry}))
              \subseteq indexed_ministries

\* the load that has just returned found no file, and the index holds records
LoadedWithoutFile ==
    /\ pc = "loaded"
    /\ l_file = "missing"
    /\ DOMAIN collection # {}

LoadedUnreadable == pc = "loaded" /\ l_file = "unreadable"

\* C17: when the registry file exists and reading or parsing it fails, the
\* load returns, the registry is empty and the index was not scanned.
C17_ReadFailureGivesEmptyRegistry ==
    LoadedUnreadable
        => /\ l_outcome = "returned"
           /\ indexed_ministries = {}
           /\ l_scan = "none"

\* C17 witness: the file is cut short, the index holds records of a
\* ministry, and the load has returned with an empty registry.
C17_Witness ==
    /\ LoadedUnreadable
    /\ registry_file = FileCorrupt
    /\ StoredMinistries # {}
    /\ indexed_ministries = {}
    /\ l_scan = "none"

\* clear() has just returned
Cleared == pc = "cleared" /\ c_outcome = "returned"

\* C18: after clear() returns, the index holds no record, the in-memory
\* registry is empty and the registry file lists no ministries.
C18_ClearEmptiesEverything ==
    Cleared
        => /\ DOMAIN collection = {}
           /\ indexed_ministries = {}
           /\ registry_file.ministries = {}

\* C18 for the index and the in-memory registry alone, which no failed
\* write of the file can affect
C18_ClearEmptiesIndexAndRegistry ==
    Cleared => DOMAIN collection = {} /\ indexed_ministries = {}

\* every place <<write, position>> of the call's index writes
AllSubmissions == UNION {Submissions(p) : p \in 1..Len(a_documents)}

SubmittedId(s) == a_writes[s[1]].ids[s[2]]
SubmittedDoc(s) == a_documents[a_writes[s[1]].srcs[s[2]]]
SuppliesId(doc) == "id" \in doc.keys

\* C23: within one add_documents call a record with a caller-supplied id is
\* submitted, and stored, under exactly that id, and no two records without
\* a caller-supplied id are given the same synthesized id.
C23_IdsWithinOneCall ==
    /\ \A s \in AllSubmissions :
          SuppliesId(SubmittedDoc(s)) => SubmittedId(s) = SubmittedDoc(s).id
    /\ \A p \in 1..Len(a_added) :
          (StoredFrom(p) /\ SuppliesId(a_documents[a_added[p].src]))
             => /\ a_documents[a_added[p].src].id \in DOMAIN collection
                /\ collection[a_documents[a_added[p].src].id].text
                      = Strip(a_documents[a_added[p].src].text)
    /\ \A s, t \in AllSubmissions :
          ( /\ s # t
            /\ ~SuppliesId(SubmittedDoc(s))
            /\ ~SuppliesId(SubmittedDoc(t)) )
             => SubmittedId(s) # SubmittedId(t)

\* C23 witness: a call stored a record under its supplied id and two records
\* without one, at the same in-batch position of two batches in one second.
C23_Witness ==
    /\ AddEnded
    /\ a_outcome = "returned"
    /\ \E s, t, u \in AllSubmissions :
          /\ SuppliesId(SubmittedDoc(u))
          /\ SubmittedId(u) \in DOMAIN collection
          /\ ~SuppliesId(SubmittedDoc(s))
          /\ ~SuppliesId(SubmittedDoc(t))
          /\ s[1] # t[1]
          /\ SubmittedId(s)[2] = SubmittedId(t)[2]
          /\ SubmittedId(s)[4] = SubmittedId(t)[4]
          /\ SubmittedId(s) \in DOMAIN collection
          /\ SubmittedId(t) \in DOMAIN collection

\* the ids the call has handed to collection.add so far
SubmittedIds == {SubmittedId(s) : s \in AllSubmissions}

\* C21: an add_documents call, finished or not, leaves every record stored
\* before it in the index, leaves unchanged each of them whose id the call
\* did not submit, and leaves every ministry registered before it in the
\* registry; a call for an already registered ministry that returns leaves
\* the registry as it was.
C21_RerunKeepsExistingState ==
    /\ \A id \in a_before.ids :
          /\ id \in DOMAIN collection
          /\ id \notin SubmittedIds => collection[id] = a_before.collection[id]
    /\ a_before.indexed_ministries \subseteq indexed_ministries
    /\ (a_outcome = "returned" /\ a_ministry \in a_before.indexed_ministries)
          => indexed_ministries = a_before.indexed_ministries

\* C21 witness: a second call for a registered ministry returned, it stored
\* a new record next to an old one whose id it did not submit.
C21_Witness ==
    /\ adds = 2
    /\ AddEnded
    /\ a_outcome = "returned"
    /\ a_ministry \in a_before.indexed_ministries
    /\ indexed_ministries = a_before.indexed_ministries
    /\ \E id \in a_before.ids :
          id \notin SubmittedIds /\ collection[id] = a_before.collection[id]
    /\ \E id \in DOMAIN collection : id \notin a_before.ids

\* every place <<write, position>> of the index writes of the call before
PreviousSubmissions ==
    {r \in {<<w, q>> : w \in 1..Len(a_before.writes), q \in 1..MaxDocs} :
        r[2] <= Len(a_before.writes[r[1]].ids)}

PreviousId(r) == a_before.writes[r[1]].ids[r[2]]
PreviousDoc(r) == a_before.documents[a_before.writes[r[1]].srcs[r[2]]]

\* submission s of this call and submission r of the call before are of
\* records without an id of their own, in the same second, at the same batch
\* offset and the same in-batch position
SamePlaceAndSecond(s, r) ==
    /\ ~SuppliesId(SubmittedDoc(s))
    /\ ~SuppliesId(PreviousDoc(r))
    /\ a_writes[s[1]].t = a_before.writes[r[1]].t
    /\ a_writes[s[1]].i = a_before.writes[r[1]].i
    /\ s[2] = r[2]

\* C24: two records without an id of their own that two add_documents calls
\* handle in the same second at the same batch offset and in-batch position
\* are given the same id.
C24_SynthesizedIdsCollide ==
    \A s \in AllSubmissions, r \in PreviousSubmissions :
       SamePlaceAndSecond(s, r) => SubmittedId(s) = PreviousId(r)

\* C24 witness: the second call submitted a record under the id the first
\* call had synthesized for a record with another text, which is the one the
\* index holds under that id.
C24_Witness ==
    \E s \in AllSubmissions, r \in PreviousSubmissions :
       /\ SamePlaceAndSecond(s, r)
       /\ SubmittedId(s) = PreviousId(r)
       /\ SubmittedDoc(s).text # PreviousDoc(r).text
       /\ a_writes[s[1]].ok
       /\ a_before.writes[r[1]].ok
       /\ SubmittedId(s) \in a_before.ids
       /\ collection[SubmittedId(s)].text = Strip(PreviousDoc(r).text)

\* both writers loaded the same registry, each marked a ministry that was
\* not in it and is not the other's, and both saves have ended well
BothMarkedAndSaved ==
    /\ \A p \in Writers :
          /\ writers[p].pc = "done"
          /\ writers[p].saved = "ok"
          /\ writers[p].ministry \notin writers[p].loaded
    /\ \A p, q \in Writers :
          /\ writers[p].loaded = writers[q].loaded
          /\ p # q => writers[p].ministry # writers[q].ministry

RateLimitedUpTo(j) == {h \in 1..j : client.log[h].response = "429"}

\* the call issues at most MAX_RETRIES requests and returns
BoundedRequests ==
    /\ client.pc \in {"idle", "attempt", "returned"}
    /\ client.requests = Len(client.log)
    /\ client.requests <= MAX_RETRIES
    /\ client.pc = "attempt" => client.requests < MAX_RETRIES

\* C25 as stated: at most MAX_RETRIES requests, and the wait after the k-th
\* 429 response of the call is RATE_LIMIT_DELAY * 2^k.
C25_BackoffByRateLimitCount ==
    /\ BoundedRequests
    /\ \A j \in 1..Len(client.log) :
          client.log[j].response = "429"
             => client.log[j].wait
                   = RATE_LIMIT_DELAY * (2 ^ Cardinality(RateLimitedUpTo(j)))

\* C25: at most MAX_RETRIES requests; the wait after a 429 response that
\* came to the j-th request of the call is RATE_LIMIT_DELAY * 2^j, so a later
\* 429 of the call waits longer than an earlier one.
C25_BoundedRetriesWithBackoff ==
    /\ BoundedRequests
    /\ \A j \in 1..Len(client.log) :
          client.log[j].response = "429"
             => /\ client.log[j].retry_count = j
                /\ client.log[j].wait = RATE_LIMIT_DELAY * (2 ^ j)
    /\ \A h, j \in 1..Len(client.log) :
          ( /\ h < j
            /\ client.log[h].response = "429"
            /\ client.log[j].response = "429" )
             => client.log[h].wait < client.log[j].wait

\* C25 witness: a call that met a connection error and then two 429s has
\* returned after MAX_RETRIES requests, having waited 4 and 8 for the 429s.
C25_Witness ==
    /\ client.pc = "returned"
    /\ client.requests = MAX_RETRIES
    /\ client.log[1].response = "client_error"
    /\ client.log[2].response = "429"
    /\ client.log[2].wait = 4 * RATE_LIMIT_DELAY
    /\ client.log[3].response = "429"
    /\ client.log[3].wait = 8 * RATE_LIMIT_DELAY

\* C29: fetch_pdfs_for_ministry requests at most max_pages pages, in the
\* order 1, 2, ..., and a page whose fetch_questions call returned no
\* questions, an empty answer or a call that failed after its retries, is
\* the last page it requests.
C29_PagesInOrderUntilEmpty ==
    /\ Len(fetcher.requested) <= max_pages
    /\ \A j \in 1..Len(fetcher.requested) : fetcher.requested[j] = j
    /\ fetcher.pc = "loop" => fetcher.page = Len(fetcher.requested) + 1
    /\ \A j \in 1..Len(fetcher.results) :
          fetcher.results[j] # "questions"
             => /\ j = Len(fetcher.requested)
                /\ fetcher.pc = "done"

\* C29 witness: page 1 had questions, the call for page 2 gave up after
\* MAX_RETRIES failed requests, and the loop ended before max_pages.
C29_Witness ==
    /\ fetcher.pc = "done"
    /\ fetcher.requested = <<1, 2>>
    /\ fetcher.results[1] = "questions"
    /\ fetcher.results[2] # "questions"
    /\ client.requests = MAX_RETRIES
    /\ \A j \in 1..MAX_RETRIES : client.log[j].response = "429"
    /\ 2 < max_pages

\* the file name of a path
FileName(pdf_path) == pdf_path[2]

\* C26: on one DocumentProcessor, a call of process_pdf returns chunks only
\* if no earlier call returned chunks for a path with the same file name,
\* whatever the directory; and a call that ended in an exception returns
\* the empty list and leaves processed_pdfs as it was.
C26_ChunksOncePerFileName ==
    /\ processor.last.documents = "chunks"
          => \A earlier \in processor.last.yielded_before :
                FileName(earlier) # FileName(processor.last.pdf_path)
    /\ processor.last.outcome = "exception"
          => /\ processor.last.documents = "[]"
             /\ processor.processed_pdfs = processor.last.processed_before

\* C26 witness: a readable copy under another directory of a file name that
\* already yielded chunks is asked for and gives the empty list.
C26_Witness ==
    /\ processor.last.outcome = "already"
    /\ processor.last.documents = "[]"
    /\ \E earlier \in processor.last.yielded_before :
          /\ FileName(earlier) = FileName(processor.last.pdf_path)
          /\ earlier # processor.last.pdf_path
    /\ processor.last.pdf_path \notin processor.yielded

\* the steps of the current run that called add_documents
AddCalls == {j \in 1..Len(creator.steps) :
                creator.steps[j].did \in {"added", "error"}}

\* the run has been through the first j ministries of Config.MINISTRIES
LoopInOrder ==
    /\ Len(creator.steps) <= Len(MINISTRIES)
    /\ \A j \in 1..Len(creator.steps) :
          creator.steps[j].ministry = MINISTRIES[j]
    /\ creator.errors =
          Cardinality({j \in 1..Len(creator.steps) :
                          creator.steps[j].did = "error"})
    /\ (creator.pc = "done" /\ Len(creator.steps) < Len(MINISTRIES))
          => ~Confirmed(creator.confirm) /\ creator.confirm # "none"

\* without force, add_documents is called for no registered ministry
NoAddForRegistered ==
    ~creator.force_rebuild
       => \A j \in AddCalls : ~creator.steps[j].registered

C28_ClearOnlyOnYes ==
    /\ creator.clears <= 1
    /\ (creator.clears = 1 \/ creator.pc = "clear")
          => /\ creator.force_rebuild
             /\ creator.start.indexed_ministries # {}
             /\ creator.confirm = "YES"
             /\ creator.cleared_at = 0
    /\ creator.pc = "clear" => creator.steps = <<>>
    /\ (creator.pc \in {"loop", "add", "done"}
          /\ creator.force_rebuild
          /\ creator.start.indexed_ministries # {}
          /\ creator.confirm # "YES")
          => /\ creator.pc = "done"
             /\ creator.steps = <<>>
             /\ creator.clears = 0
             /\ collection = creator.start.collection
             /\ indexed_ministries = creator.start.indexed_ministries
             /\ registry_file = creator.start.registry_file

\* C28 witness: a forced run on a registered store was answered YES, cleared
\* the store and then indexed a ministry.
C28_Witness ==
    /\ creator.force_rebuild
    /\ creator.confirm = "YES"
    /\ creator.clears = 1
    /\ c_deleted = "ok"
    /\ creator.start.indexed_ministries # {}
    /\ creator.pc = "done"
    /\ \E j \in AddCalls : creator.steps[j].did = "added"

\* the run that ended fetched the content and found another hash stored
ChangeSeen(run) ==
    run.ended /\ run.fetched /\ run.current_hash # run.previous_hash

\* the update scripts of the run were started, or tried
UpdateRun(run) == run.update # "none"

\* what every ended run of the monitor leaves in the hash file
StoredAfterRun ==
    monitor.last.ended
       => /\ monitor.stored = IF monitor.last.saved
                              THEN monitor.last.current_hash
                              ELSE monitor.last.previous_hash
          /\ UpdateRun(monitor.last) => ChangeSeen(monitor.last)
          /\ ~monitor.last.fetched => ~monitor.last.saved

====
